---------------------------- MODULE Spec2Model ----------------------------
(***************************************************************************)
(* A model of taar's recommendation dispatch (RecommendationManager) and   *)
(* of its similarity strategy (SimilarityRecommender).                     *)
(*                                                                         *)
(* Numbers.  The source computes with floats.  The model computes with     *)
(* exact rationals kept as integers over a fixed denominator:              *)
(*   - a Canberra distance is an integer count of 1/CanberraScale;         *)
(*   - a Hamming distance is an integer count of 1/HammingScale;           *)
(*   - a composite distance and a curve score are integer counts of        *)
(*     1/DistUnit, DistUnit = EpsDen * CanberraScale * HammingScale;       *)
(*   - a likelihood ratio is a fraction <<n, d>> in lowest terms.          *)
(* Python's None is the record None; a loaded value v is Some(v).  A       *)
(* client profile is a function from attribute names to values: an         *)
(* attribute that is absent or null in the dict is outside its DOMAIN      *)
(* (dict.get(f, None) does not tell the two apart).                        *)
(***************************************************************************)
EXTENDS Integers, Sequences, FiniteSets, TLC

VARIABLES
    donors_pool,    \* SimilarityRecommender.donors_pool: None or Some(sequence of donors)
    lr_curves,      \* SimilarityRecommender.lr_curves: None or Some(sequence of curve entries)
    recommenders,   \* RecommendationManager.recommenders: the ordered strategies
    mgr_call,       \* the last RecommendationManager.recommend call and what it did
    sim_call,       \* the last SimilarityRecommender.recommend call and what it did
    lr_call,        \* the last SimilarityRecommender.get_lr call and what it returned
    dist_call       \* the last distance computation of get_similar_donors

vars == <<donors_pool, lr_curves, recommenders, mgr_call, sim_call, lr_call, dist_call>>

---------------------------------------------------------------------------
(* Bounds of the model *)

MaxDonors == 3
MaxPoolDispatch == 1
MaxRecommenders == 3
MaxLimit == 5
MaxCurveLen == 3
MaxScore == 3
MaxCont == 2

---------------------------------------------------------------------------
(* Python values *)

None == [present |-> FALSE, value |-> <<>>]
Some(v) == [present |-> TRUE, value |-> v]

Range(s) == {s[i] : i \in 1..Len(s)}
Abs(x) == IF x < 0 THEN 0 - x ELSE x
Min(a, b) == IF a <= b THEN a ELSE b

RECURSIVE Fact(_)
Fact(n) == IF n <= 1 THEN 1 ELSE n * Fact(n - 1)

RECURSIVE GCD(_, _)
GCD(a, b) == IF b = 0 THEN a ELSE GCD(b, a % b)

RECURSIVE SumSeq(_)
SumSeq(s) == IF s = <<>> THEN 0 ELSE Head(s) + SumSeq(Tail(s))

RECURSIVE Concat(_)
Concat(ss) == IF ss = <<>> THEN <<>> ELSE Head(ss) \o Concat(Tail(ss))

\* F(v) with v evaluated once (TLC would evaluate a LET definition at each use)
Bind(v, F(_)) == CHOOSE r \in {F(x) : x \in {v}} : TRUE

\* s[:n] left out: the list as the loop built it
SliceNone(s, n) == s

\* Python's s[:n] for n >= 0
SliceTo(s, n) == SubSeq(s, 1, Min(n, Len(s)))

\* numerator / denominator as a fraction in lowest terms
Ratio(n, d) == <<n \div GCD(n, d), d \div GCD(n, d)>>
LRGreater(x, y) == x[1] * y[2] > y[1] * x[2]
LROne == <<1, 1>>
LRTwo == <<2, 1>>

---------------------------------------------------------------------------
(* similarity_recommender.py: the feature lists *)

CATEGORICAL_FEATURES == <<"geo_city", "locale", "os">>
CONTINUOUS_FEATURES ==
    <<"subsession_length", "bookmark_count", "tab_open_count", "total_uri", "unique_tlds">>
REQUIRED_FIELDS == CATEGORICAL_FEATURES \o CONTINUOUS_FEATURES

\* the 0.001 of `(cont_features + 0.001) * cat_features` is 1/EpsDen
EpsDen == 1000
\* every |u - v| / (|u| + |v|) with u, v in 0..MaxCont is a multiple of 1/CanberraScale
CanberraScale == Fact(2 * MaxCont)
HammingScale == Len(CATEGORICAL_FEATURES)
DistUnit == EpsDen * CanberraScale * HammingScale

\* client_data.get(f, None) is not None
Has(client_data, f) == f \in DOMAIN client_data
\* client_data.get(f): <<>> for None, <<v>> for a value v
Get(client_data, f) == IF Has(client_data, f) THEN <<client_data[f]>> ELSE <<>>

---------------------------------------------------------------------------
(* SimilarityRecommender: `self` is [donors_pool, lr_curves] *)

\* build_features_caches returns early, building nothing, when a data file is missing
CachesBuilt(self) == self.donors_pool # None /\ self.lr_curves # None

num_donors(self) == Len(self.donors_pool.value)

\* row idx holds [d.get(key) for key in CONTINUOUS_FEATURES]
continuous_features(self) ==
    [idx \in 1..num_donors(self) |->
        [j \in 1..Len(CONTINUOUS_FEATURES) |->
            self.donors_pool.value[idx][CONTINUOUS_FEATURES[j]]]]

\* row idx holds [d.get(key) for key in CATEGORICAL_FEATURES], kept as objects
categorical_features(self) ==
    [idx \in 1..num_donors(self) |->
        [j \in 1..Len(CATEGORICAL_FEATURES) |->
            Get(self.donors_pool.value[idx], CATEGORICAL_FEATURES[j])]]

\* np.array([s[0] for s in self.lr_curves])
lr_curves_cache(self) ==
    [i \in 1..Len(self.lr_curves.value) |-> self.lr_curves.value[i][1]]

\* `any` in place of `all` over the required fields
can_recommend_any(self, client_data) ==
    IF self.donors_pool = None \/ self.lr_curves = None
    THEN FALSE
    ELSE \E f \in Range(REQUIRED_FIELDS) : Has(client_data, f)

can_recommend(self, client_data) ==
    IF self.donors_pool = None \/ self.lr_curves = None
    THEN FALSE
    ELSE \A f \in Range(REQUIRED_FIELDS) : Has(client_data, f)

\* the last occurrence of the minimum in place of the first
ArgMinLast(xs) ==
    CHOOSE i \in 1..Len(xs) :
        /\ \A j \in 1..Len(xs) : xs[i] <= xs[j]
        /\ \A j \in (i + 1)..Len(xs) : xs[j] > xs[i]

\* np.argmin: the index of the first occurrence of the minimum
ArgMin(xs) ==
    CHOOSE i \in 1..Len(xs) :
        /\ \A j \in 1..Len(xs) : xs[i] <= xs[j]
        /\ \A j \in 1..(i - 1) : xs[j] > xs[i]

get_lr(self, score) ==
    LET cache == lr_curves_cache(self)
        idx == ArgMin([i \in 1..Len(cache) |-> Abs(score - cache[i])])
        numer_val == self.lr_curves.value[idx][2][1]
        denum_val == self.lr_curves.value[idx][2][2]
    IN  Ratio(numer_val, denum_val)

\* scipy's canberra: sum |u_i - v_i| / (|u_i| + |v_i|), a 0/0 term counting 0;
\* in units of 1/CanberraScale
Canberra(u, v) ==
    SumSeq([j \in 1..Len(u) |->
        IF Abs(u[j]) + Abs(v[j]) = 0 THEN 0
        ELSE (Abs(u[j] - v[j]) * CanberraScale) \div (Abs(u[j]) + Abs(v[j]))])

\* scipy's hamming: the fraction of places where u and v differ; in units of
\* 1/HammingScale
Hamming(u, v) == Cardinality({j \in 1..Len(u) : u[j] # v[j]})

client_categorical_feats(client_data) ==
    [j \in 1..Len(CATEGORICAL_FEATURES) |-> Get(client_data, CATEGORICAL_FEATURES[j])]
client_continuous_feats(client_data) ==
    [j \in 1..Len(CONTINUOUS_FEATURES) |-> client_data[CONTINUOUS_FEATURES[j]]]

cont_features(self, client_data) ==
    Bind(<<continuous_features(self), client_continuous_feats(client_data)>>,
         LAMBDA X : [i \in 1..num_donors(self) |-> Canberra(X[1][i], X[2])])
cat_features(self, client_data) ==
    Bind(<<categorical_features(self), client_categorical_feats(client_data)>>,
         LAMBDA X : [i \in 1..num_donors(self) |-> Hamming(X[1][i], X[2])])

\* the parentheses left out: cont_features + 0.001 * cat_features
CompositeDistanceNoParens(canberra, hamming) ==
    EpsDen * HammingScale * canberra + CanberraScale * hamming

\* (cont_features + 0.001) * cat_features, in units of 1/DistUnit
CompositeDistance(canberra, hamming) == (EpsDen * canberra + CanberraScale) * hamming

distances(self, client_data) ==
    Bind(<<cont_features(self, client_data), cat_features(self, client_data)>>,
         LAMBDA f : [i \in 1..num_donors(self) |-> CompositeDistance(f[1][i], f[2][i])])

lrs_from_scores(self, client_data) ==
    Bind(distances(self, client_data),
         LAMBDA dists : [i \in 1..num_donors(self) |-> get_lr(self, dists[i])])

\* the negation left out: lrs_from_scores.argsort(), ascending
ArgsortAscending(lrs) ==
    {p \in Permutations(1..Len(lrs)) :
        \A i \in 1..(Len(lrs) - 1) : ~LRGreater(lrs[p[i]], lrs[p[i + 1]])}

\* (-lrs_from_scores).argsort(): numpy's default sort kind is not a stable sort, so
\* any permutation that puts the LRs in descending order may come out
ArgsortDescending(lrs) ==
    {p \in Permutations(1..Len(lrs)) :
        \A i \in 1..(Len(lrs) - 1) : ~LRGreater(lrs[p[i + 1]], lrs[p[i]])}

\* what get_similar_donors returns when argsort yields `indices`
get_similar_donors(self, client_data, indices) ==
    Bind(lrs_from_scores(self, client_data),
         LAMBDA lrs : [ranking |-> [k \in 1..Len(indices) |-> lrs[indices[k]]],
                       indices |-> indices,
                       lrs |-> lrs])

\* the exception recommend ends with, "" when it returns
RecommendError(self, client_data) ==
    IF ~CachesBuilt(self) THEN "AttributeError"
    ELSE IF \E f \in Range(CONTINUOUS_FEATURES) : ~Has(client_data, f) THEN "TypeError"
    ELSE IF num_donors(self) > 0 /\ Len(self.lr_curves.value) = 0 THEN "ValueError"
    ELSE IF num_donors(self) = 0 THEN "IndexError"
    ELSE ""

\* `>=` in place of `>`: indices[donor_set_ranking >= 1.0]
highest_scores_indices_ge(ranked) ==
    LET keep(k) == ~LRGreater(LROne, ranked.ranking[k])
        F[k \in 0..Len(ranked.indices)] ==
            IF k = 0 THEN <<>>
            ELSE IF keep(k) THEN Append(F[k - 1], ranked.indices[k]) ELSE F[k - 1]
    IN  F[Len(ranked.indices)]

\* indices[donor_set_ranking > 1.0]
highest_scores_indices(ranked) ==
    LET keep(k) == LRGreater(ranked.ranking[k], LROne)
        F[k \in 0..Len(ranked.indices)] ==
            IF k = 0 THEN <<>>
            ELSE IF keep(k) THEN Append(F[k - 1], ranked.indices[k]) ELSE F[k - 1]
    IN  F[Len(ranked.indices)]

\* the limit tested before extending: a donor whose list would overshoot is left out
RECURSIVE ExtendLoopNoOvershoot(_, _, _, _)
ExtendLoopNoOvershoot(pool, idxs, recommendations, limit) ==
    IF idxs = <<>> THEN recommendations
    ELSE LET extended == recommendations \o pool[Head(idxs)].active_addons
         IN  IF Len(extended) > limit THEN recommendations
             ELSE ExtendLoopNoOvershoot(pool, Tail(idxs), extended, limit)

\* the loop of recommend: extend, then break once len(recommendations) > limit
RECURSIVE ExtendLoop(_, _, _, _)
ExtendLoop(pool, idxs, recommendations, limit) ==
    IF idxs = <<>> THEN recommendations
    ELSE LET extended == recommendations \o pool[Head(idxs)].active_addons
         IN  IF Len(extended) > limit THEN extended
             ELSE ExtendLoop(pool, Tail(idxs), extended, limit)

\* SimilarityRecommender.recommend, argsort yielding `indices`
recommend(self, client_data, limit, indices) ==
    LET err == RecommendError(self, client_data)
    IN  IF err # ""
        THEN [outcome |-> err, result |-> <<>>, warned |-> FALSE,
              lrs |-> <<>>, indices |-> <<>>]
        ELSE Bind(get_similar_donors(self, client_data, indices), LAMBDA ranked :
                 [outcome |-> "returned",
                  result |-> SliceTo(ExtendLoop(self.donors_pool.value,
                                                highest_scores_indices(ranked),
                                                <<>>, limit),
                                     limit),
                  warned |-> LRGreater(LRTwo, ranked.ranking[1]),
                  lrs |-> ranked.lrs,
                  indices |-> indices])

\* the outputs argsort may give in recommend(self, client_data, .)
ArgsortChoices(self, client_data) ==
    IF RecommendError(self, client_data) \in {"", "IndexError"}
    THEN ArgsortDescending(lrs_from_scores(self, client_data))
    ELSE {<<>>}

---------------------------------------------------------------------------
(* The inputs the model draws from *)

GeoCities == {"berlin", "paris"}
Locales == {"de", "fr"}
OSes == {"linux", "mac"}

Features(g, l, o, s, b) ==
    [geo_city |-> g, locale |-> l, os |-> o,
     subsession_length |-> s, bookmark_count |-> b,
     tab_open_count |-> 1, total_uri |-> 1, unique_tlds |-> 1]

Without(client_data, f) == [k \in (DOMAIN client_data) \ {f} |-> client_data[k]]

Donor(g, s, addons) ==
    [geo_city |-> g, locale |-> "de", os |-> "linux",
     subsession_length |-> s, bookmark_count |-> 1,
     tab_open_count |-> 1, total_uri |-> 1, unique_tlds |-> 1,
     active_addons |-> addons]

Donors ==
    { Donor("berlin", 1, <<"adblock", "https", "noscript">>),
      Donor("paris", 1, <<"adblock">>),
      Donor("paris", 2, <<"vim", "dark", "adblock">>) }

Pools(n) == UNION {[1..k -> Donors] : k \in 0..n}

\* curve entries are <<score, <<numerator, denominator>>>>, densities in tenths
Curves ==
    { << <<0, <<9, 1>>>>, <<DistUnit \div 10, <<3, 2>>>>, <<DistUnit \div 3, <<1, 2>>>> >>,
      << <<DistUnit \div 3, <<1, 1>>>>, <<0, <<2, 1>>>>, <<DistUnit \div 10, <<4, 2>>>> >>,
      << <<0, <<1, 1>>>>, <<DistUnit, <<1, 3>>>> >>,
      << >> }

CompleteProfiles ==
    {Features(g, "de", "linux", s, 1) : g \in GeoCities, s \in 0..1}
IncompleteProfiles ==
    {Without(Features("paris", "de", "linux", 1, 1), f) : f \in Range(REQUIRED_FIELDS)}
Profiles == CompleteProfiles \cup IncompleteProfiles
\* the profiles recommend is called with directly: the complete ones, one that
\* lacks a categorical attribute and one that lacks a continuous attribute
SimProfiles ==
    CompleteProfiles
    \cup {Without(Features("paris", "de", "linux", 1, 1), f) : f \in {"locale", "total_uri"}}

Limits == 1..MaxLimit

---------------------------------------------------------------------------
(* Call records *)

EmptyDict == [k \in {} |-> 0]

SimIdle ==
    [op |-> "idle", client_data |-> EmptyDict, limit |-> 0, outcome |-> "",
     result |-> <<>>, warned |-> FALSE, lrs |-> <<>>, indices |-> <<>>]
MgrIdle ==
    [op |-> "idle", found |-> FALSE, client_info |-> EmptyDict, limit |-> 0,
     outcome |-> "", result |-> <<>>, trace |-> <<>>, indices |-> <<>>]
LrIdle == [op |-> "idle", score |-> 0, lr |-> LROne]
DistIdle ==
    [op |-> "idle", client_data |-> EmptyDict, canberra |-> <<>>, hamming |-> <<>>,
     distances |-> <<>>]

Similarity == [kind |-> "similarity", can |-> FALSE, out |-> <<>>]

Self == [donors_pool |-> donors_pool, lr_curves |-> lr_curves]

---------------------------------------------------------------------------
(* SimilarityRecommender.recommend called on a constructed instance *)

InitSim ==
    /\ donors_pool \in {None} \cup {Some(pool) : pool \in Pools(MaxDonors)}
    /\ lr_curves \in {None} \cup {Some(curve) : curve \in Curves}
    /\ recommenders = <<Similarity>>
    /\ mgr_call = MgrIdle
    /\ sim_call = SimIdle
    /\ lr_call = LrIdle
    /\ dist_call = DistIdle

\* Requests are served one at a time (synchronous, single-threaded): a call is made
\* when no result is pending, and Reply hands the pending result to the caller.
SimilarityRecommend(client_data, limit) ==
    /\ sim_call.op = "idle"
    /\ \E indices \in ArgsortChoices(Self, client_data) :
          \E ret \in {recommend(Self, client_data, limit, indices)} :
              sim_call' = [op |-> "recommend", client_data |-> client_data, limit |-> limit,
                           outcome |-> ret.outcome, result |-> ret.result,
                           warned |-> ret.warned, lrs |-> ret.lrs, indices |-> ret.indices]
    /\ UNCHANGED <<donors_pool, lr_curves, recommenders, mgr_call, lr_call, dist_call>>

SimilarityReply ==
    /\ sim_call.op # "idle"
    /\ sim_call' = SimIdle
    /\ UNCHANGED <<donors_pool, lr_curves, recommenders, mgr_call, lr_call, dist_call>>

NextSim ==
    \/ \E client_data \in SimProfiles, limit \in Limits :
          SimilarityRecommend(client_data, limit)
    \/ SimilarityReply

SpecSim == InitSim /\ [][NextSim]_vars

---------------------------------------------------------------------------
(* RecommendationManager *)

\* A strategy of the manager: the SimilarityRecommender instance, or some other
\* BaseRecommender whose can_recommend answers `can` and whose recommend returns `out`
Stub(can, out) == [kind |-> "stub", can |-> can, out |-> out]
Strategies ==
    {Similarity, Stub(FALSE, <<>>), Stub(TRUE, <<>>), Stub(TRUE, <<"collab", "legacy">>)}

\* r.can_recommend(client_info)
StrategyCanRecommend(r, self, client_info) ==
    IF r.kind = "similarity" THEN can_recommend(self, client_info) ELSE r.can

\* r.recommend(client_info, limit)
StrategyRecommend(r, self, client_info, limit, indices) ==
    IF r.kind = "similarity"
    THEN Bind(recommend(self, client_info, limit, indices),
              LAMBDA ret : [outcome |-> ret.outcome, result |-> ret.result])
    ELSE [outcome |-> "returned", result |-> r.out]

Called(i, method, can) == [idx |-> i, method |-> method, can |-> can]

\* an empty result falling through to the next strategy
RECURSIVE RecommendLoopFallthrough(_, _, _, _, _, _, _)
RecommendLoopFallthrough(rs, i, self, client_info, limit, indices, trace) ==
    IF i > Len(rs)
    THEN [outcome |-> "returned", result |-> <<>>, trace |-> trace]
    ELSE IF StrategyCanRecommend(rs[i], self, client_info)
         THEN Bind(StrategyRecommend(rs[i], self, client_info, limit, indices),
                   LAMBDA ret :
                     IF ret.outcome = "returned" /\ ret.result = <<>>
                     THEN RecommendLoopFallthrough(
                              rs, i + 1, self, client_info, limit, indices,
                              trace \o <<Called(i, "can_recommend", TRUE),
                                         Called(i, "recommend", TRUE)>>)
                     ELSE [outcome |-> ret.outcome, result |-> ret.result,
                           trace |-> trace \o <<Called(i, "can_recommend", TRUE),
                                                Called(i, "recommend", TRUE)>>])
         ELSE RecommendLoopFallthrough(rs, i + 1, self, client_info, limit, indices,
                                       Append(trace, Called(i, "can_recommend", FALSE)))

\* `for r in self.recommenders`, from the i-th strategy on
RECURSIVE RecommendLoop(_, _, _, _, _, _, _)
RecommendLoop(rs, i, self, client_info, limit, indices, trace) ==
    IF i > Len(rs)
    THEN [outcome |-> "returned", result |-> <<>>, trace |-> trace]
    ELSE IF StrategyCanRecommend(rs[i], self, client_info)
         THEN Bind(StrategyRecommend(rs[i], self, client_info, limit, indices),
                   LAMBDA ret :
                     [outcome |-> ret.outcome, result |-> ret.result,
                      trace |-> trace \o <<Called(i, "can_recommend", TRUE),
                                           Called(i, "recommend", TRUE)>>])
         ELSE RecommendLoop(rs, i + 1, self, client_info, limit, indices,
                            Append(trace, Called(i, "can_recommend", FALSE)))

\* the `client_info is None` test left out
ManagerRecommendNoProfileCheck(rs, self, fetched, limit, indices) ==
    RecommendLoop(rs, 1, self, fetched.value, limit, indices, <<>>)

\* RecommendationManager.recommend, profile_fetcher.get(client_id) returning `fetched`
ManagerRecommendResult(rs, self, fetched, limit, indices) ==
    IF fetched = None
    THEN [outcome |-> "returned", result |-> <<>>, trace |-> <<>>]
    ELSE RecommendLoop(rs, 1, self, fetched.value, limit, indices, <<>>)

\* what profile_fetcher.get(client_id) may return
Fetched == {None} \cup {Some(p) : p \in Profiles}

\* argsort runs only when the similarity strategy is the one selected
ManagerArgsortChoices(rs, self, fetched) ==
    IF /\ fetched # None
       /\ \E i \in 1..Len(rs) :
            /\ rs[i].kind = "similarity"
            /\ can_recommend(self, fetched.value)
            /\ \A j \in 1..(i - 1) : ~StrategyCanRecommend(rs[j], self, fetched.value)
    THEN ArgsortChoices(self, fetched.value)
    ELSE {<<>>}

ManagerCurves ==
    { << <<0, <<9, 1>>>>, <<DistUnit \div 10, <<3, 2>>>>, <<DistUnit \div 3, <<1, 2>>>> >>,
      << <<0, <<1, 1>>>>, <<DistUnit, <<1, 3>>>> >> }
ManagerLimits == {1, MaxLimit}

Init ==
    /\ donors_pool \in {None} \cup {Some(pool) : pool \in Pools(MaxPoolDispatch)}
    /\ lr_curves \in {None} \cup {Some(curve) : curve \in ManagerCurves}
    /\ recommenders \in UNION {[1..k -> Strategies] : k \in 1..MaxRecommenders}
    /\ mgr_call = MgrIdle
    /\ sim_call = SimIdle
    /\ lr_call = LrIdle
    /\ dist_call = DistIdle

ManagerRecommend(fetched, limit) ==
    /\ mgr_call.op = "idle"
    /\ \E indices \in ManagerArgsortChoices(recommenders, Self, fetched) :
          \E ret \in {ManagerRecommendResult(recommenders, Self, fetched, limit, indices)} :
              mgr_call' = [op |-> "recommend",
                           found |-> fetched.present, client_info |-> fetched.value,
                           limit |-> limit, outcome |-> ret.outcome,
                           result |-> ret.result, trace |-> ret.trace,
                           indices |-> indices]
    /\ UNCHANGED <<donors_pool, lr_curves, recommenders, sim_call, lr_call, dist_call>>

ManagerReply ==
    /\ mgr_call.op # "idle"
    /\ mgr_call' = MgrIdle
    /\ UNCHANGED <<donors_pool, lr_curves, recommenders, sim_call, lr_call, dist_call>>

Next ==
    \/ \E fetched \in Fetched, limit \in ManagerLimits : ManagerRecommend(fetched, limit)
    \/ ManagerReply

Spec == Init /\ [][Next]_vars

---------------------------------------------------------------------------
(* SimilarityRecommender.get_lr on every curve of up to MaxCurveLen entries *)

Densities == {<<9, 1>>, <<1, 1>>, <<1, 2>>}
CurveEntries == {<<score, density>> : score \in 0..MaxScore, density \in Densities}
AllCurves == UNION {[1..k -> CurveEntries] : k \in 1..MaxCurveLen}

InitLR ==
    /\ donors_pool = Some(<<>>)
    /\ lr_curves \in {Some(curve) : curve \in AllCurves}
    /\ recommenders = <<Similarity>>
    /\ mgr_call = MgrIdle
    /\ sim_call = SimIdle
    /\ lr_call = LrIdle
    /\ dist_call = DistIdle

GetLr(score) ==
    /\ lr_call.op = "idle"
    /\ lr_call' = [op |-> "get_lr", score |-> score, lr |-> get_lr(Self, score)]
    /\ UNCHANGED <<donors_pool, lr_curves, recommenders, mgr_call, sim_call, dist_call>>

GetLrReply ==
    /\ lr_call.op # "idle"
    /\ lr_call' = LrIdle
    /\ UNCHANGED <<donors_pool, lr_curves, recommenders, mgr_call, sim_call, dist_call>>

NextLR ==
    \/ \E score \in 0..(MaxScore + 1) : GetLr(score)
    \/ GetLrReply

SpecLR == InitLR /\ [][NextLR]_vars

---------------------------------------------------------------------------
(* The distances of get_similar_donors, for every pair of donors *)

DistDonors ==
    {Features(g, l, "linux", s, b) @@ [active_addons |-> <<>>] :
        g \in GeoCities, l \in Locales, s \in 0..MaxCont, b \in 0..MaxCont}
DistProfiles ==
    {Features("berlin", "de", o, 1, b) : o \in OSes, b \in {0, MaxCont}}

InitDist ==
    /\ donors_pool \in {Some(<<a, b>>) : a \in DistDonors, b \in DistDonors}
    /\ lr_curves = Some(<< <<0, <<9, 1>>>> >>)
    /\ recommenders = <<Similarity>>
    /\ mgr_call = MgrIdle
    /\ sim_call = SimIdle
    /\ lr_call = LrIdle
    /\ dist_call = DistIdle

\* get_similar_donors up to `distances = (cont_features + 0.001) * cat_features`
SimilarDonorsDistances(client_data) ==
    /\ dist_call.op = "idle"
    /\ dist_call' = [op |-> "distances", client_data |-> client_data,
                     canberra |-> cont_features(Self, client_data),
                     hamming |-> cat_features(Self, client_data),
                     distances |-> distances(Self, client_data)]
    /\ UNCHANGED <<donors_pool, lr_curves, recommenders, mgr_call, sim_call, lr_call>>

DistancesReply ==
    /\ dist_call.op # "idle"
    /\ dist_call' = DistIdle
    /\ UNCHANGED <<donors_pool, lr_curves, recommenders, mgr_call, sim_call, lr_call>>

NextDist ==
    \/ \E client_data \in DistProfiles : SimilarDonorsDistances(client_data)
    \/ DistancesReply

SpecDist == InitDist /\ [][NextDist]_vars

---------------------------------------------------------------------------
(* Properties of RecommendationManager.recommend (Spec) *)

Dispatched == mgr_call.op = "recommend"

\* strategy i is the first, in configured order, whose can_recommend holds
FirstMatch(i) ==
    /\ StrategyCanRecommend(recommenders[i], Self, mgr_call.client_info)
    /\ \A j \in 1..(i - 1) :
          ~StrategyCanRecommend(recommenders[j], Self, mgr_call.client_info)

\* the calls made on the similarity strategy
SimilarityCalls ==
    {k \in 1..Len(mgr_call.trace) :
        recommenders[mgr_call.trace[k].idx].kind = "similarity"}

Incomplete(client_data) == \E f \in Range(REQUIRED_FIELDS) : ~Has(client_data, f)

\* C1: when the profile is found, the manager's outcome is exactly that of
\* recommend(profile, limit) of the first strategy whose can_recommend is true; no
\* method of a later strategy is called, and recommend is called once, on that one.
C1_FirstMatchOnly ==
    (Dispatched /\ mgr_call.found) =>
        \A i \in 1..Len(recommenders) :
            FirstMatch(i) =>
                /\ [outcome |-> mgr_call.outcome, result |-> mgr_call.result]
                      = StrategyRecommend(recommenders[i], Self, mgr_call.client_info,
                                          mgr_call.limit, mgr_call.indices)
                /\ \A k \in 1..Len(mgr_call.trace) : mgr_call.trace[k].idx <= i
                /\ \A k \in 1..Len(mgr_call.trace) :
                      mgr_call.trace[k].method = "recommend" =>
                          (mgr_call.trace[k].idx = i /\ k = Len(mgr_call.trace))

\* the selected strategy returned nothing and the next one could have recommended
C1_Witness ==
    /\ Dispatched /\ mgr_call.found
    /\ mgr_call.outcome = "returned" /\ mgr_call.result = <<>>
    /\ \E i \in 1..(Len(recommenders) - 1) :
          /\ FirstMatch(i)
          /\ StrategyCanRecommend(recommenders[i + 1], Self, mgr_call.client_info)
          /\ recommenders[i + 1].out # <<>>

\* C2: when the fetcher returns no profile the manager returns the empty sequence
\* and calls no method of any strategy.
C2_NoProfileNoCall ==
    (Dispatched /\ ~mgr_call.found) =>
        /\ mgr_call.outcome = "returned"
        /\ mgr_call.result = <<>>
        /\ mgr_call.trace = <<>>

\* no profile, with a strategy configured that recommends whatever the profile
C2_Witness ==
    /\ Dispatched /\ ~mgr_call.found
    /\ \E i \in 1..Len(recommenders) :
          recommenders[i].kind = "stub" /\ recommenders[i].can /\ recommenders[i].out # <<>>

\* C5: for a profile in which a required attribute is missing or null, every
\* can_recommend of the similarity strategy answers false and its recommend is
\* never called by the manager.
C5_IncompleteNeverRecommended ==
    (Dispatched /\ mgr_call.found /\ Incomplete(mgr_call.client_info)) =>
        \A k \in SimilarityCalls :
            mgr_call.trace[k].method = "can_recommend" /\ ~mgr_call.trace[k].can

\* locale missing, the other attributes present, a populated pool and a curve:
\* the similarity strategy was asked
C5_Witness ==
    /\ Dispatched /\ mgr_call.found
    /\ ~Has(mgr_call.client_info, "locale")
    /\ \A f \in Range(REQUIRED_FIELDS) \ {"locale"} : Has(mgr_call.client_info, f)
    /\ donors_pool # None /\ lr_curves # None
    /\ Len(donors_pool.value) > 0
    /\ SimilarityCalls # {}

\* C6: with a donor pool that is present but empty, can_recommend of the similarity
\* strategy answers false for every profile and its recommend is never reached.
C6_EmptyPoolCannotRecommend ==
    (Dispatched /\ donors_pool = Some(<<>>)) =>
        \A k \in SimilarityCalls :
            mgr_call.trace[k].method = "can_recommend" /\ ~mgr_call.trace[k].can

---------------------------------------------------------------------------
(* Properties of SimilarityRecommender.recommend (SpecSim) *)

Returned == sim_call.op = "recommend" /\ sim_call.outcome = "returned"

\* donor i of the pool has a likelihood ratio strictly greater than 1.0
Qualifies(i) == LRGreater(sim_call.lrs[i], LROne)

\* the qualifying donors in the order get_similar_donors ranked them
QualRanked == SelectSeq(sim_call.indices, Qualifies)

Addons(i) == donors_pool.value[i].active_addons

\* the add-ons of the first k qualifying donors, in ranked order
RankedConcat(k) == Concat([m \in 1..k |-> Addons(QualRanked[m])])

Count(s, a) == Cardinality({k \in 1..Len(s) : s[k] = a})

\* C3: the returned sequence is no longer than limit.
C3_AtMostLimit == Returned => Len(sim_call.result) <= sim_call.limit

\* the donor appended last took the list over the limit
C3_Witness ==
    /\ Returned
    /\ \E k \in 1..Len(QualRanked) :
          /\ Len(RankedConcat(k - 1)) < sim_call.limit
          /\ Len(RankedConcat(k)) > sim_call.limit
    /\ Len(sim_call.result) = sim_call.limit

\* C4: every occurrence of an add-on in the result is accounted for by the
\* active_addons of the donors whose LR is strictly greater than 1.0, and the
\* result is empty when no donor has LR > 1.0.
C4_OnlyQualifyingDonors ==
    Returned =>
        /\ \A a \in Range(sim_call.result) :
              Count(sim_call.result, a)
                 <= SumSeq([i \in 1..Len(donors_pool.value) |->
                              IF Qualifies(i) THEN Count(Addons(i), a) ELSE 0])
        /\ (\A i \in 1..Len(donors_pool.value) : ~Qualifies(i)) => sim_call.result = <<>>

\* a donor with LR > 1.0 beside a donor with LR exactly 1.0, and room left in the
\* result for more add-ons
C4_Witness ==
    /\ Returned
    /\ \E i, j \in 1..Len(donors_pool.value) : Qualifies(i) /\ sim_call.lrs[j] = LROne
    /\ sim_call.result # <<>>
    /\ Len(sim_call.result) < sim_call.limit

\* C8: the result is the first min(limit, N) elements of the concatenation, in
\* ranked order, of the active_addons of the donors with LR > 1.0, the ranked order
\* of these donors being LR-descending.
C8_PrefixOfRankedConcat ==
    Returned =>
        /\ sim_call.result =
              SubSeq(RankedConcat(Len(QualRanked)), 1,
                     Min(sim_call.limit, Len(RankedConcat(Len(QualRanked)))))
        /\ \A k \in 1..(Len(QualRanked) - 1) :
              ~LRGreater(sim_call.lrs[QualRanked[k + 1]], sim_call.lrs[QualRanked[k]])

\* limit 5, three qualifying donors of 3 add-ons each, 5 entries returned
C8_Witness ==
    /\ Returned
    /\ sim_call.limit = 5
    /\ Len(donors_pool.value) = 3
    /\ \A i \in 1..3 : Qualifies(i) /\ Len(Addons(i)) = 3
    /\ Len(sim_call.result) = 5

\* the ranking is a permutation of the pool in LR-descending order
RankedDescending ==
    /\ Len(sim_call.indices) = Len(donors_pool.value)
    /\ Range(sim_call.indices) = 1..Len(donors_pool.value)
    /\ \A k \in 1..(Len(sim_call.indices) - 1) :
          ~LRGreater(sim_call.lrs[sim_call.indices[k + 1]],
                     sim_call.lrs[sim_call.indices[k]])

---------------------------------------------------------------------------
(* Properties of the composite distance (SpecDist) *)

Measured == dist_call.op = "distances"

\* donors a and b match the client on the same number of categorical fields and
\* a is the closer one on the continuous features
SameMatchCloser(a, b) ==
    /\ dist_call.hamming[a] = dist_call.hamming[b]
    /\ dist_call.canberra[a] < dist_call.canberra[b]

---------------------------------------------------------------------------
(* Properties of get_lr (SpecLR) *)

Looked == lr_call.op = "get_lr"

Gap(i) == Abs(lr_call.score - lr_curves.value[i][1])

\* entry i is as close to the score as any entry of the curve
Nearest(i) == \A j \in 1..Len(lr_curves.value) : Gap(i) <= Gap(j)

\* C10: get_lr returns numerator / denominator of the entry nearest to the score,
\* the first such entry in the curve's order when several are as near; the entry
\* (0.0, (0.9, 0.1)) gives 9.0.
C10_NearestFirstEntry ==
    Looked =>
        \E i \in 1..Len(lr_curves.value) :
            /\ Nearest(i)
            /\ \A j \in 1..(i - 1) : ~Nearest(j)
            /\ lr_call.lr[1] * lr_curves.value[i][2][2]
                  = lr_call.lr[2] * lr_curves.value[i][2][1]
            /\ lr_curves.value[i] = <<0, <<9, 1>>>> => lr_call.lr = <<9, 1>>

\* a curve not sorted by score, with two entries of different ratio as near
C10_Witness ==
    /\ Looked
    /\ \E i, j \in 1..Len(lr_curves.value) :
          /\ i < j /\ Nearest(i) /\ Nearest(j)
          /\ lr_curves.value[i][2] # lr_curves.value[j][2]
          /\ lr_curves.value[i][1] > lr_curves.value[j][1]

===========================================================================
